---- MODULE Spec2Model ----
(***************************************************************************)
(* Model of the libvirt domain schema codec of KubeVirt                    *)
(* (pkg/virt-launcher/virtwrap/api): the Alias type, the LaunchSecurity    *)
(* variant, the DomainSpec tree, the architecture defaulter and the XML    *)
(* and JSON codecs, as exercised by the schema test-suite.                 *)
(*                                                                         *)
(* Strings are sequences of one-character strings, so that prefixing,      *)
(* prefix detection and substring search are computed, not assumed.        *)
(* An XML document is the element tree the encoder writes and the decoder  *)
(* reads: [tag, attrs, children, text]; Render gives its text.             *)
(***************************************************************************)
EXTENDS Integers, Sequences, FiniteSets, TLC

VARIABLES
    pc,              \* which value the client currently works on
    alias,           \* *Alias held by the client
    aliasXML,        \* output of xml.Marshal(alias), or input document
    aliasJSON,       \* output of json.Marshal(alias)
    newAlias,        \* target of xml.Unmarshal / json.Unmarshal
    via,             \* how newAlias was decoded: "xml" or "json"
    aliasCtor,       \* which constructor made alias: "user" or "libvirt"
    aliasArg,        \* the bare name handed to that constructor
    launchSecurity,  \* *LaunchSecurity held by the client
    lsXML,           \* output of xml.Marshal(launchSecurity), or input document
    newLaunchSecurity, \* target of xml.Unmarshal
    domain,          \* *Domain held by the client
    domainXML,       \* output of xml.Marshal(domain.Spec), or input document
    newDomain,       \* target of xml.Unmarshal
    arch,            \* architecture of the defaulter applied to domain
    defaults,        \* how many times the defaulter was applied to domain
    onceDefaulted,   \* domain as it was after the first application
    edits,           \* how many fields the controller has set
    base,            \* where domain came from: "minimal", "example", "expected"
    heap,            \* allocated objects; a pointer is an index into it, 0 is nil
    original,        \* pointer to the Domain that is copied
    copy,            \* pointer DeepCopy returned, 0 before the call
    snapshot,        \* value of the original when DeepCopy was called
    mutations,       \* how many assignments were made through copy
    vmi,             \* *v1.VirtualMachineInstance handed to the SEV predicates
    called,          \* which predicates were called on vmi
    ret              \* what each predicate returned

aliasVars == <<alias, aliasXML, aliasJSON, newAlias, via, aliasCtor, aliasArg>>

lsVars == <<launchSecurity, lsXML, newLaunchSecurity>>

domVars == <<domain, domainXML, newDomain, arch, defaults, onceDefaulted, edits, base>>

copyVars == <<heap, original, copy, snapshot, mutations>>

vmiVars == <<vmi, called, ret>>

vars == <<pc, aliasVars, lsVars, domVars, copyVars, vmiVars>>

----------------------------------------------------------------------------
(* Bounds *)

MaxNameLen == 4

MaxSetFields == 2

MaxChildren == 2

MaxEdits == 2

MaxUnitId == 2

MaxMutations == 2

----------------------------------------------------------------------------
(* Strings *)

Nil == [nil |-> TRUE]

NameChar == {"u", "a", "-", "x"}

RECURSIVE StrsUpTo(_, _)
StrsUpTo(chars, n) ==
    IF n = 0 THEN {<<>>}
    ELSE LET shorter == StrsUpTo(chars, n - 1)
         IN  shorter \cup {Append(s, c) : s \in shorter, c \in chars}

HasPrefix(s, prefix) ==
    /\ Len(s) >= Len(prefix)
    /\ SubSeq(s, 1, Len(prefix)) = prefix

TrimPrefixOnce(s, prefix) ==
    IF HasPrefix(s, prefix) THEN SubSeq(s, Len(prefix) + 1, Len(s)) ELSE s

ContainSubstring(s, sub) ==
    \E i \in 0..(Len(s) - Len(sub)) : SubSeq(s, i + 1, i + Len(sub)) = sub

RECURSIVE Flatten(_)
Flatten(ss) == IF ss = <<>> THEN <<>> ELSE Head(ss) \o Flatten(Tail(ss))

----------------------------------------------------------------------------
(* XML element trees and their text *)

Attr(n, v) == [name |-> n, value |-> v]

Element(t, as, cs, txt) == [tag |-> t, attrs |-> as, children |-> cs, text |-> txt]

RenderAttrs(as) ==
    Flatten([i \in 1..Len(as) |-> <<" ", as[i].name, "=", "\"">> \o as[i].value \o <<"\"">>])

RECURSIVE Render(_)
Render(el) ==
    <<"<", el.tag>> \o RenderAttrs(el.attrs) \o <<">">>
      \o el.text
      \o Flatten([i \in 1..Len(el.children) |-> Render(el.children[i])])
      \o <<"</", el.tag, ">">>

\* the value of attribute n, or the zero value "" the decoder leaves when it is absent
AttrValue(el, n) ==
    LET hits == {i \in 1..Len(el.attrs) : el.attrs[i].name = n}
    IN  IF hits = {} THEN <<>>
        ELSE el.attrs[CHOOSE i \in hits : \A j \in hits : j <= i].value

----------------------------------------------------------------------------
(* Alias *)

UserAliasPrefix == <<"u", "a", "-">>

testAliasName == <<"a", "l", "i", "a", "s", "0">>

exampleXMLnonUserDefinedAlias ==
    <<"<", "Alias", " ", "name", "=", "\"", "a", "l", "i", "a", "s", "0", "\"", ">",
      "</", "Alias", ">">>

exampleXMLUserDefinedAlias ==
    <<"<", "Alias", " ", "name", "=", "\"", "u", "a", "-", "a", "l", "i", "a", "s", "0", "\"", ">",
      "</", "Alias", ">">>

exampleJSONnonUserDefinedAlias ==
    <<"{", "\"", "Name", "\"", ":", "\"", "a", "l", "i", "a", "s", "0", "\"", ",",
      "\"", "UserDefined", "\"", ":", "false", "}">>

exampleJSONuserDefinedAlias ==
    <<"{", "\"", "Name", "\"", ":", "\"", "a", "l", "i", "a", "s", "0", "\"", ",",
      "\"", "UserDefined", "\"", ":", "true", "}">>

BareNames == StrsUpTo(NameChar, MaxNameLen) \cup {testAliasName}

newLibvirtManagedAlias_Flagged(aliasName) == [name |-> aliasName, userDefined |-> TRUE]

newLibvirtManagedAlias_Prefixed(aliasName) ==
    [name |-> <<"u", "a", "-">> \o aliasName, userDefined |-> FALSE]

newLibvirtManagedAlias_Unnamed(aliasName) == [name |-> <<>>, userDefined |-> FALSE]

newLibvirtManagedAlias(aliasName) == [name |-> aliasName, userDefined |-> FALSE]

NewUserDefinedAlias(aliasName) == [name |-> aliasName, userDefined |-> TRUE]

GetName(a) == a.name

IsUserDefined(a) == a.userDefined

Alias_MarshalXML(a, startTag) ==
    LET userDefinedPrefix == IF a.userDefined THEN UserAliasPrefix ELSE <<>>
    IN  Element(startTag, <<Attr("name", userDefinedPrefix \o a.name)>>, <<>>, <<>>)

Alias_UnmarshalXML(el) ==
    LET wireName == AttrValue(el, "name")
    IN  IF HasPrefix(wireName, UserAliasPrefix)
        THEN [name |-> TrimPrefixOnce(wireName, UserAliasPrefix), userDefined |-> TRUE]
        ELSE [name |-> wireName, userDefined |-> FALSE]

JSONMember(k, v) == [key |-> k, val |-> v]

JSONString(s) == [str |-> s]

JSONBool(b) == [bool |-> b]

JSONObject(ms) == [members |-> ms]

\* the userAliasMarshal struct {Name string; UserDefined bool} carries the private fields
Alias_MarshalJSON(a) ==
    JSONObject(<<JSONMember("Name", JSONString(a.name)),
                 JSONMember("UserDefined", JSONBool(a.userDefined))>>)

JSONLookup(obj, k, zero) ==
    LET ms   == obj.members
        hits == {i \in 1..Len(ms) : ms[i].key = k}
    IN  IF hits = {} THEN zero
        ELSE ms[CHOOSE i \in hits : \A j \in hits : j <= i].val

Alias_UnmarshalJSON(obj) ==
    [name |-> JSONLookup(obj, "Name", JSONString(<<>>)).str,
     userDefined |-> JSONLookup(obj, "UserDefined", JSONBool(FALSE)).bool]

RenderJSONValue(v) ==
    IF "bool" \in DOMAIN v THEN <<IF v.bool THEN "true" ELSE "false">>
    ELSE <<"\"">> \o v.str \o <<"\"">>

RenderJSON(obj) ==
    LET ms == obj.members
    IN  <<"{">>
          \o Flatten([i \in 1..Len(ms) |->
                (IF i > 1 THEN <<",">> ELSE <<>>)
                  \o <<"\"", ms[i].key, "\"", ":">> \o RenderJSONValue(ms[i].val)])
          \o <<"}">>

----------------------------------------------------------------------------
(* LaunchSecurity *)

AMDFieldOrder_IdSwapped ==
    <<"Policy", "AuthorKey", "VCEK", "IdBlock", "IdAuth", "HostData", "DHCert", "Session",
      "Cbitpos", "ReducedPhysBits">>

\* the fields of AMDLaunchSecurity, in the order their elements are written
AMDFieldOrder ==
    <<"Policy", "AuthorKey", "VCEK", "IdAuth", "IdBlock", "HostData", "DHCert", "Session",
      "Cbitpos", "ReducedPhysBits">>

AMDFields == {AMDFieldOrder[i] : i \in 1..Len(AMDFieldOrder)}

AMDTag_IdSwapped ==
    [Policy |-> "policy", AuthorKey |-> "authorKey", VCEK |-> "vcek", IdAuth |-> "idBlock",
     IdBlock |-> "idAuth", HostData |-> "hostData", DHCert |-> "dhCert", Session |-> "session",
     Cbitpos |-> "cbitpos", ReducedPhysBits |-> "reducedPhysBits"]

\* the element name of each field
AMDTag ==
    [Policy |-> "policy", AuthorKey |-> "authorKey", VCEK |-> "vcek", IdAuth |-> "idAuth",
     IdBlock |-> "idBlock", HostData |-> "hostData", DHCert |-> "dhCert", Session |-> "session",
     Cbitpos |-> "cbitpos", ReducedPhysBits |-> "reducedPhysBits"]

AMDTags == {AMDTag[f] : f \in AMDFields}

launchSecurityAllFields ==
    [Type |-> <<"s", "e", "v", "-", "s", "n", "p">>,
     AMD |->
         [Policy |-> <<"0", "x", "3", "0", "0", "0", "0">>,
          AuthorKey |-> <<"y", "e", "s">>,
          VCEK |-> <<"y", "e", "s">>,
          IdAuth |-> <<"t", "e", "s", "t", "-", "i", "d", "-", "a", "u", "t", "h">>,
          IdBlock |-> <<"t", "e", "s", "t", "-", "i", "d", "-", "b", "l", "o", "c", "k">>,
          HostData |-> <<"t", "e", "s", "t", "-", "h", "o", "s", "t", "-", "d", "a", "t", "a">>,
          DHCert |-> <<"t", "e", "s", "t", "-", "d", "h", "-", "c", "e", "r", "t">>,
          Session |-> <<"t", "e", "s", "t", "-", "s", "e", "s", "s", "i", "o", "n">>,
          Cbitpos |-> <<"5", "1">>,
          ReducedPhysBits |-> <<"1">>]]

expectedXMLAllFields ==
    <<"<", "LaunchSecurity", " ", "type", "=", "\"", "s", "e", "v", "-", "s", "n", "p", "\"",
      ">", "<", "policy", ">", "0", "x", "3", "0", "0", "0", "0", "</", "policy", ">", "<",
      "authorKey", ">", "y", "e", "s", "</", "authorKey", ">", "<", "vcek", ">", "y", "e", "s",
      "</", "vcek", ">", "<", "idAuth", ">", "t", "e", "s", "t", "-", "i", "d", "-", "a", "u",
      "t", "h", "</", "idAuth", ">", "<", "idBlock", ">", "t", "e", "s", "t", "-", "i", "d",
      "-", "b", "l", "o", "c", "k", "</", "idBlock", ">", "<", "hostData", ">", "t", "e", "s",
      "t", "-", "h", "o", "s", "t", "-", "d", "a", "t", "a", "</", "hostData", ">", "<",
      "dhCert", ">", "t", "e", "s", "t", "-", "d", "h", "-", "c", "e", "r", "t", "</",
      "dhCert", ">", "<", "session", ">", "t", "e", "s", "t", "-", "s", "e", "s", "s", "i",
      "o", "n", "</", "session", ">", "<", "cbitpos", ">", "5", "1", "</", "cbitpos", ">", "<",
      "reducedPhysBits", ">", "1", "</", "reducedPhysBits", ">", "</", "LaunchSecurity", ">">>

launchSecurityMinimal ==
    [Type |-> <<"s", "e", "v", "-", "s", "n", "p">>,
     AMD |->
         [Policy |-> <<"0", "x", "3", "0", "0", "0", "0">>,
          AuthorKey |-> <<>>,
          VCEK |-> <<>>,
          IdAuth |-> <<>>,
          IdBlock |-> <<>>,
          HostData |-> <<>>,
          DHCert |-> <<>>,
          Session |-> <<>>,
          Cbitpos |-> <<>>,
          ReducedPhysBits |-> <<>>]]

expectedXMLMinimal ==
    <<"<", "LaunchSecurity", " ", "type", "=", "\"", "s", "e", "v", "-", "s", "n", "p", "\"",
      ">", "<", "policy", ">", "0", "x", "3", "0", "0", "0", "0", "</", "policy", ">", "</",
      "LaunchSecurity", ">">>

launchSecurityEmptyAMD ==
    [Type |-> <<"s", "e", "v", "-", "s", "n", "p">>,
     AMD |->
         [Policy |-> <<>>,
          AuthorKey |-> <<>>,
          VCEK |-> <<>>,
          IdAuth |-> <<>>,
          IdBlock |-> <<>>,
          HostData |-> <<>>,
          DHCert |-> <<>>,
          Session |-> <<>>,
          Cbitpos |-> <<>>,
          ReducedPhysBits |-> <<>>]]

launchSecurityNilAMD ==
    [Type |-> <<"s", "e", "v", "-", "s", "n", "p">>,
     AMD |-> Nil]

expectedXMLNoChildren ==
    <<"<", "LaunchSecurity", " ", "type", "=", "\"", "s", "e", "v", "-", "s", "n", "p", "\"",
      ">", "</", "LaunchSecurity", ">">>

launchSecurityRegularSEV ==
    [Type |-> <<"s", "e", "v">>,
     AMD |->
         [Policy |-> <<"0", "x", "0", "0", "0", "1">>,
          AuthorKey |-> <<>>,
          VCEK |-> <<>>,
          IdAuth |-> <<>>,
          IdBlock |-> <<>>,
          HostData |-> <<>>,
          DHCert |-> <<"t", "e", "s", "t", "-", "d", "h", "-", "c", "e", "r", "t">>,
          Session |-> <<"t", "e", "s", "t", "-", "s", "e", "s", "s", "i", "o", "n">>,
          Cbitpos |-> <<>>,
          ReducedPhysBits |-> <<>>]]

expectedXMLRegularSEV ==
    <<"<", "LaunchSecurity", " ", "type", "=", "\"", "s", "e", "v", "\"", ">", "<", "policy",
      ">", "0", "x", "0", "0", "0", "1", "</", "policy", ">", "<", "dhCert", ">", "t", "e",
      "s", "t", "-", "d", "h", "-", "c", "e", "r", "t", "</", "dhCert", ">", "<", "session",
      ">", "t", "e", "s", "t", "-", "s", "e", "s", "s", "i", "o", "n", "</", "session", ">",
      "</", "LaunchSecurity", ">">>

sevLaunchSecurity ==
    [Type |-> <<"s", "e", "v">>,
     AMD |->
         [Policy |-> <<"0", "x", "0", "0", "0", "1">>,
          AuthorKey |-> <<>>,
          VCEK |-> <<>>,
          IdAuth |-> <<>>,
          IdBlock |-> <<>>,
          HostData |-> <<>>,
          DHCert |-> <<>>,
          Session |-> <<>>,
          Cbitpos |-> <<>>,
          ReducedPhysBits |-> <<>>]]

sevSnpLaunchSecurity ==
    [Type |-> <<"s", "e", "v", "-", "s", "n", "p">>,
     AMD |->
         [Policy |-> <<"0", "x", "3", "0", "0", "0", "0">>,
          AuthorKey |-> <<>>,
          VCEK |-> <<>>,
          IdAuth |-> <<>>,
          IdBlock |-> <<>>,
          HostData |-> <<>>,
          DHCert |-> <<>>,
          Session |-> <<>>,
          Cbitpos |-> <<>>,
          ReducedPhysBits |-> <<>>]]

typeSevSubstring_Unclosed ==
    <<"type", "=", "\"", "s", "e", "v">>

typeSevSubstring ==
    <<"type", "=", "\"", "s", "e", "v", "\"">>

typeSevSnpSubstring ==
    <<"type", "=", "\"", "s", "e", "v", "-", "s", "n", "p", "\"">>

xmlDataAllFields ==
    Element("LaunchSecurity", <<Attr("type", <<"s", "e", "v", "-", "s", "n", "p">>)>>, <<
      Element("policy", <<>>, <<>>, <<"0", "x", "3", "0", "0", "0", "0">>),
      Element("authorKey", <<>>, <<>>, <<"y", "e", "s">>),
      Element("vcek", <<>>, <<>>, <<"y", "e", "s">>),
      Element("idAuth", <<>>, <<>>, <<"t", "e", "s", "t", "-", "i", "d", "-", "a", "u", "t", "h">>),
      Element("idBlock", <<>>, <<>>, <<"t", "e", "s", "t", "-", "i", "d", "-", "b", "l", "o", "c", "k">>),
      Element("hostData", <<>>, <<>>, <<"t", "e", "s", "t", "-", "h", "o", "s", "t", "-", "d", "a", "t", "a">>),
      Element("dhCert", <<>>, <<>>, <<"t", "e", "s", "t", "-", "d", "h", "-", "c", "e", "r", "t">>),
      Element("session", <<>>, <<>>, <<"t", "e", "s", "t", "-", "s", "e", "s", "s", "i", "o", "n">>),
      Element("cbitpos", <<>>, <<>>, <<"5", "1">>),
      Element("reducedPhysBits", <<>>, <<>>, <<"1">>)>>, <<>>)

xmlDataMinimal ==
    Element("LaunchSecurity", <<Attr("type", <<"s", "e", "v", "-", "s", "n", "p">>)>>, <<
      Element("policy", <<>>, <<>>, <<"0", "x", "3", "0", "0", "0", "0">>)>>, <<>>)

Sev == <<"s", "e", "v">>

SevSnp == <<"s", "e", "v", "-", "s", "n", "p">>

LSTypes == {Sev, SevSnp, <<"t", "d", "x">>, <<>>}

AMDValues == {<<"y">>, <<"s", "e", "v">>}

AMDPayloads ==
    {p \in [AMDFields -> AMDValues \cup {<<>>}] :
        Cardinality({f \in AMDFields : p[f] # <<>>}) <= MaxSetFields}

testLaunchSecurities ==
    {launchSecurityAllFields, launchSecurityMinimal, launchSecurityEmptyAMD,
     launchSecurityNilAMD, launchSecurityRegularSEV, sevLaunchSecurity, sevSnpLaunchSecurity}

LaunchSecurities ==
    {[Type |-> t, AMD |-> a] : t \in LSTypes, a \in AMDPayloads \cup {Nil}}
      \cup testLaunchSecurities

AMDChildren(amd) ==
    LET present == SelectSeq(AMDFieldOrder, LAMBDA f : amd[f] # <<>>)
    IN  [i \in 1..Len(present) |-> Element(AMDTag[present[i]], <<>>, <<>>, amd[present[i]])]

LaunchSecurity_MarshalXML(l, startTag) ==
    Element(startTag,
            <<Attr("type", l.Type)>>,
            IF l.AMD = Nil THEN <<>> ELSE AMDChildren(l.AMD),
            <<>>)

ChildText(el, tag) ==
    LET hits == {i \in 1..Len(el.children) : el.children[i].tag = tag}
    IN  IF hits = {} THEN <<>>
        ELSE el.children[CHOOSE i \in hits : \A j \in hits : j <= i].text

HasChild(el, tag) == \E i \in 1..Len(el.children) : el.children[i].tag = tag

LaunchSecurity_UnmarshalXML(el) ==
    [Type |-> AttrValue(el, "type"),
     AMD  |-> IF \E f \in AMDFields : HasChild(el, AMDTag[f])
              THEN [f \in AMDFields |-> ChildText(el, AMDTag[f])]
              ELSE Nil]

\* documents handed to the decoder that the encoder did not write: up to MaxChildren
\* children with distinct names, known or not, in any order, with or without text
DocChild == {Element(t, <<>>, <<>>, x) : t \in AMDTags \cup {"unknown"}, x \in {<<>>, <<"y">>}}

RECURSIVE DocChildSeqs(_)
DocChildSeqs(n) ==
    IF n = 0 THEN {<<>>}
    ELSE LET shorter == DocChildSeqs(n - 1)
         IN  shorter \cup
             {Append(s, c) : s \in shorter, c \in DocChild}

DistinctTags(cs) == \A i, j \in 1..Len(cs) : cs[i].tag = cs[j].tag => i = j

LaunchSecurityDocs ==
    {Element("LaunchSecurity", <<Attr("type", t)>>, cs, <<>>) :
        t \in {Sev, SevSnp}, cs \in {s \in DocChildSeqs(MaxChildren) : DistinctTags(s)}}
      \cup {xmlDataAllFields, xmlDataMinimal}

----------------------------------------------------------------------------
(* Numbers in attribute values *)

Digit == <<"0", "1", "2", "3", "4", "5", "6", "7", "8", "9">>

\* strconv.FormatUint(n, 10)
RECURSIVE FormatUint(_)
FormatUint(n) ==
    IF n < 10 THEN <<Digit[n + 1]>> ELSE Append(FormatUint(n \div 10), Digit[(n % 10) + 1])

DigitValue(c) == (CHOOSE k \in 1..10 : Digit[k] = c) - 1

\* strconv.ParseUint(s, 10, 0)
RECURSIVE ParseUint(_)
ParseUint(s) ==
    IF s = <<>> THEN 0
    ELSE 10 * ParseUint(SubSeq(s, 1, Len(s) - 1)) + DigitValue(s[Len(s)])

----------------------------------------------------------------------------
(* Domain and DomainSpec *)

LibvirtNamespace == <<"h", "t", "t", "p", ":", "/", "/", "l", "i", "b", "v", "i", "r", "t", ".", "o", "r", "g", "/", "s", "c", "h", "e", "m", "a", "s", "/", "d", "o", "m", "a", "i", "n", "/", "q", "e", "m", "u", "/", "1", ".", "0">>

None == <<"n", "o", "n", "e">>

VirtIO == <<"v", "i", "r", "t", "i", "o">>

NewMinimalDomainSpec(vmiName) ==
    [XMLName |-> <<>>,
     XmlNS |-> <<>>,
     Type |-> <<>>,
     Name |-> vmiName,
     OS |-> [Type |-> [OS |-> <<>>, Arch |-> <<>>, Machine |-> <<>>]],
     CPU |-> [Mode |-> <<>>, Model |-> <<>>, NUMA |-> Nil],
     CPUTune |-> Nil,
     NUMATune |-> Nil,
     Features |-> Nil,
     Devices |-> [Disks |-> <<>>, Ballooning |-> Nil],
     LaunchSecurity |-> Nil]

NewMinimalDomainWithNS(namespace, name) ==
    [Namespace |-> namespace,
     Name |-> name,
     Spec |-> NewMinimalDomainSpec(namespace \o <<"_">> \o name)]

\* &FeatureEnabled{}: a struct without fields
FeatureEnabled == [enabled |-> TRUE]

\* &Features{}
EmptyFeatures == [ACPI |-> Nil, SMM |-> Nil, PMU |-> Nil]

Disk(type, target, a) == [Type |-> type, Device |-> <<"d", "i", "s", "k">>, Target |-> target, Alias |-> a]

\* the example domain of the test-suite, in the fields the model carries
exampleDomain ==
    LET d == NewMinimalDomainWithNS(<<"m", "y", "n", "a", "m", "e", "s", "p", "a", "c", "e">>, <<"t", "e", "s", "t", "v", "m", "i">>)
    IN  [d EXCEPT
           !.Spec.Devices.Disks =
               <<Disk(<<"n", "e", "t", "w", "o", "r", "k">>, <<"v", "d", "a">>, NewUserDefinedAlias(<<"m", "y", "d", "i", "s", "k">>)),
                 Disk(<<"f", "i", "l", "e">>, <<"v", "d", "b">>, NewUserDefinedAlias(<<"m", "y", "d", "i", "s", "k", "1">>)),
                 Disk(<<"b", "l", "o", "c", "k">>, <<"v", "d", "c">>, NewUserDefinedAlias(<<"m", "y", "d", "i", "s", "k", "2">>))>>,
           !.Spec.CPU.Mode = <<"c", "u", "s", "t", "o", "m">>,
           !.Spec.CPU.Model = <<"C", "o", "n", "r", "o", "e">>,
           !.Spec.Features = [ACPI |-> FeatureEnabled, SMM |-> FeatureEnabled,
                              PMU |-> [State |-> <<"o", "f", "f">>]],
           !.Spec.Devices.Ballooning = [Model |-> VirtIO, Stats |-> [Period |-> 10]]]

exampleDomainWithMemballonDevice_WithStats ==
    [exampleDomain EXCEPT !.Spec.Devices.Ballooning = [Model |-> None, Stats |-> [Period |-> 10]]]

\* exampleDomain.DeepCopy() with Ballooning replaced
exampleDomainWithMemballonDevice ==
    [exampleDomain EXCEPT !.Spec.Devices.Ballooning = [Model |-> None, Stats |-> Nil]]

argNoMemBalloon_WithStats ==
    <<"<", "memballoon", " ", "model", "=", "\"", "n", "o", "n", "e", "\"", ">", "<",
      "stats", " ", "period", "=", "\"", "1", "0", "\"", ">", "</", "stats", ">", "</",
      "memballoon", ">">>

argNoMemBalloon ==
    <<"<", "memballoon", " ", "model", "=", "\"", "n", "o", "n", "e", "\"", ">", "</",
      "memballoon", ">">>
\* the text between the elements is the indentation xml.MarshalIndent adds
argMemBalloonVirtio ==
    <<"<", "memballoon", " ", "model", "=", "\"", "v", "i", "r", "t", "i", "o", "\"", ">", "<",
      "stats", " ", "period", "=", "\"", "1", "0", "\"", ">", "</", "stats", ">", "</",
      "memballoon", ">">>
----------------------------------------------------------------------------
(* XML codec of DomainSpec *)

OptAttr(n, v) == IF v = <<>> THEN <<>> ELSE <<Attr(n, v)>>

OptElement(v, el) == IF v = Nil THEN <<>> ELSE <<el>>

ChildrenNamed(el, tag) == SelectSeq(el.children, LAMBDA c : c.tag = tag)

\* a "none" memballoon never carries <stats>
MemBalloon_MarshalXML(b) ==
    Element("memballoon", <<Attr("model", b.Model)>>,
            IF b.Stats = Nil \/ b.Model = None THEN <<>>
            ELSE <<Element("stats", <<Attr("period", FormatUint(b.Stats.Period))>>, <<>>, <<>>)>>,
            <<>>)

MemBalloon_UnmarshalXML(el) ==
    LET stats == ChildrenNamed(el, "stats")
    IN  [Model |-> AttrValue(el, "model"),
         Stats |-> IF stats = <<>> THEN Nil
                   ELSE [Period |-> ParseUint(AttrValue(stats[Len(stats)], "period"))]]

Disk_MarshalXML(d) ==
    Element("disk", <<Attr("type", d.Type), Attr("device", d.Device)>>,
            <<Element("target", OptAttr("dev", d.Target), <<>>, <<>>)>>
              \o OptElement(d.Alias, Alias_MarshalXML(d.Alias, "alias")),
            <<>>)

Disk_UnmarshalXML(el) ==
    LET target == ChildrenNamed(el, "target")
        as     == ChildrenNamed(el, "alias")
    IN  [Type |-> AttrValue(el, "type"),
         Device |-> AttrValue(el, "device"),
         Target |-> IF target = <<>> THEN <<>> ELSE AttrValue(target[Len(target)], "dev"),
         Alias |-> IF as = <<>> THEN Nil ELSE Alias_UnmarshalXML(as[Len(as)])]

Devices_MarshalXML(dv) ==
    Element("devices", <<>>,
            [i \in 1..Len(dv.Disks) |-> Disk_MarshalXML(dv.Disks[i])]
              \o OptElement(dv.Ballooning, MemBalloon_MarshalXML(dv.Ballooning)),
            <<>>)

Devices_UnmarshalXML(el) ==
    LET disks == ChildrenNamed(el, "disk")
        mb    == ChildrenNamed(el, "memballoon")
    IN  [Disks |-> [i \in 1..Len(disks) |-> Disk_UnmarshalXML(disks[i])],
         Ballooning |-> IF mb = <<>> THEN Nil ELSE MemBalloon_UnmarshalXML(mb[Len(mb)])]

NUMACell_MarshalXML(c) ==
    Element("cell",
            <<Attr("id", c.ID), Attr("cpus", c.CPUs), Attr("memory", FormatUint(c.Memory)),
              Attr("unit", c.Unit)>>,
            <<>>, <<>>)

NUMACell_UnmarshalXML(el) ==
    [ID |-> AttrValue(el, "id"), CPUs |-> AttrValue(el, "cpus"),
     Memory |-> ParseUint(AttrValue(el, "memory")), Unit |-> AttrValue(el, "unit")]

CPU_MarshalXML(c) ==
    Element("cpu", OptAttr("mode", c.Mode),
            (IF c.Model = <<>> THEN <<>> ELSE <<Element("model", <<>>, <<>>, c.Model)>>)
              \o (IF c.NUMA = Nil THEN <<>>
                  ELSE <<Element("numa", <<>>,
                                 [i \in 1..Len(c.NUMA.Cells) |->
                                     NUMACell_MarshalXML(c.NUMA.Cells[i])],
                                 <<>>)>>),
            <<>>)

CPU_UnmarshalXML(el) ==
    LET numa == ChildrenNamed(el, "numa")
        cells == IF numa = <<>> THEN <<>> ELSE ChildrenNamed(numa[Len(numa)], "cell")
    IN  [Mode |-> AttrValue(el, "mode"),
         Model |-> ChildText(el, "model"),
         NUMA |-> IF numa = <<>> THEN Nil
                  ELSE [Cells |-> [i \in 1..Len(cells) |-> NUMACell_UnmarshalXML(cells[i])]]]

CPUTune_MarshalXML(t) ==
    Element("cputune", <<>>,
            [i \in 1..Len(t.VCPUPin) |->
                Element("vcpupin",
                        <<Attr("vcpu", FormatUint(t.VCPUPin[i].VCPU)),
                          Attr("cpuset", t.VCPUPin[i].CPUSet)>>, <<>>, <<>>)]
              \o [i \in 1..Len(t.IOThreadPin) |->
                    Element("iothreadpin",
                            <<Attr("iothread", FormatUint(t.IOThreadPin[i].IOThread)),
                              Attr("cpuset", t.IOThreadPin[i].CPUSet)>>, <<>>, <<>>)]
              \o OptElement(t.EmulatorPin,
                            Element("emulatorpin", <<Attr("cpuset", t.EmulatorPin.CPUSet)>>,
                                    <<>>, <<>>)),
            <<>>)

CPUTune_UnmarshalXML(el) ==
    LET vs == ChildrenNamed(el, "vcpupin")
        is == ChildrenNamed(el, "iothreadpin")
        es == ChildrenNamed(el, "emulatorpin")
    IN  [VCPUPin |-> [i \in 1..Len(vs) |->
                        [VCPU |-> ParseUint(AttrValue(vs[i], "vcpu")),
                         CPUSet |-> AttrValue(vs[i], "cpuset")]],
         IOThreadPin |-> [i \in 1..Len(is) |->
                            [IOThread |-> ParseUint(AttrValue(is[i], "iothread")),
                             CPUSet |-> AttrValue(is[i], "cpuset")]],
         EmulatorPin |-> IF es = <<>> THEN Nil
                         ELSE [CPUSet |-> AttrValue(es[Len(es)], "cpuset")]]

NUMATune_MarshalXML(t) ==
    Element("numatune", <<>>,
            <<Element("memory",
                      <<Attr("mode", t.Memory.Mode)>> \o OptAttr("nodeset", t.Memory.NodeSet),
                      <<>>, <<>>)>>
              \o [i \in 1..Len(t.MemNodes) |->
                    Element("memnode",
                            <<Attr("cellid", FormatUint(t.MemNodes[i].CellID)),
                              Attr("mode", t.MemNodes[i].Mode)>>
                              \o OptAttr("nodeset", t.MemNodes[i].NodeSet),
                            <<>>, <<>>)],
            <<>>)

NUMATune_UnmarshalXML(el) ==
    LET ms == ChildrenNamed(el, "memory")
        ns == ChildrenNamed(el, "memnode")
    IN  [Memory |-> IF ms = <<>> THEN [Mode |-> <<>>, NodeSet |-> <<>>]
                    ELSE [Mode |-> AttrValue(ms[Len(ms)], "mode"),
                          NodeSet |-> AttrValue(ms[Len(ms)], "nodeset")],
         MemNodes |-> [i \in 1..Len(ns) |->
                         [CellID |-> ParseUint(AttrValue(ns[i], "cellid")),
                          Mode |-> AttrValue(ns[i], "mode"),
                          NodeSet |-> AttrValue(ns[i], "nodeset")]]]

Features_MarshalXML(f) ==
    Element("features", <<>>,
            OptElement(f.ACPI, Element("acpi", <<>>, <<>>, <<>>))
              \o OptElement(f.SMM, Element("smm", <<>>, <<>>, <<>>))
              \o OptElement(f.PMU, Element("pmu", OptAttr("state", f.PMU.State), <<>>, <<>>)),
            <<>>)

Features_UnmarshalXML(el) ==
    LET ps == ChildrenNamed(el, "pmu")
    IN  [ACPI |-> IF HasChild(el, "acpi") THEN FeatureEnabled ELSE Nil,
         SMM |-> IF HasChild(el, "smm") THEN FeatureEnabled ELSE Nil,
         PMU |-> IF ps = <<>> THEN Nil ELSE [State |-> AttrValue(ps[Len(ps)], "state")]]

OS_MarshalXML(os) ==
    Element("os", <<>>,
            <<Element("type", OptAttr("arch", os.Type.Arch) \o OptAttr("machine", os.Type.Machine),
                      <<>>, os.Type.OS)>>,
            <<>>)

OS_UnmarshalXML(el) ==
    LET ts == ChildrenNamed(el, "type")
    IN  [Type |-> IF ts = <<>> THEN [OS |-> <<>>, Arch |-> <<>>, Machine |-> <<>>]
                  ELSE [OS |-> ts[Len(ts)].text,
                        Arch |-> AttrValue(ts[Len(ts)], "arch"),
                        Machine |-> AttrValue(ts[Len(ts)], "machine")]]

DomainSpec_MarshalXML(d) ==
    Element("domain",
            <<Attr("type", d.Type)>> \o OptAttr("xmlns:qemu", d.XmlNS),
            <<Element("name", <<>>, <<>>, d.Name)>>
              \o OptElement(d.CPUTune, CPUTune_MarshalXML(d.CPUTune))
              \o OptElement(d.NUMATune, NUMATune_MarshalXML(d.NUMATune))
              \o <<OS_MarshalXML(d.OS)>>
              \o OptElement(d.Features, Features_MarshalXML(d.Features))
              \o <<CPU_MarshalXML(d.CPU), Devices_MarshalXML(d.Devices)>>
              \o OptElement(d.LaunchSecurity,
                            LaunchSecurity_MarshalXML(d.LaunchSecurity, "launchSecurity")),
            <<>>)

\* the decoder names the root element and does not read the namespace declaration back
DomainSpec_UnmarshalXML(el) ==
    LET one(tag) == LET cs == ChildrenNamed(el, tag) IN cs[Len(cs)]
        has(tag) == ChildrenNamed(el, tag) # <<>>
    IN  [XMLName |-> <<"d", "o", "m", "a", "i", "n">>,
         XmlNS |-> <<>>,
         Type |-> AttrValue(el, "type"),
         Name |-> ChildText(el, "name"),
         OS |-> IF has("os") THEN OS_UnmarshalXML(one("os"))
                ELSE [Type |-> [OS |-> <<>>, Arch |-> <<>>, Machine |-> <<>>]],
         CPU |-> IF has("cpu") THEN CPU_UnmarshalXML(one("cpu"))
                 ELSE [Mode |-> <<>>, Model |-> <<>>, NUMA |-> Nil],
         CPUTune |-> IF has("cputune") THEN CPUTune_UnmarshalXML(one("cputune")) ELSE Nil,
         NUMATune |-> IF has("numatune") THEN NUMATune_UnmarshalXML(one("numatune")) ELSE Nil,
         Features |-> IF has("features") THEN Features_UnmarshalXML(one("features")) ELSE Nil,
         Devices |-> IF has("devices") THEN Devices_UnmarshalXML(one("devices"))
                     ELSE [Disks |-> <<>>, Ballooning |-> Nil],
         LaunchSecurity |-> IF has("launchSecurity")
                            THEN LaunchSecurity_UnmarshalXML(one("launchSecurity"))
                            ELSE Nil]

----------------------------------------------------------------------------
(* Architecture defaulter *)

Architectures == {<<"a", "m", "d", "6", "4">>, <<"a", "r", "m", "6", "4">>, <<"p", "p", "c", "6", "4", "l", "e">>, <<"r", "i", "s", "c", "v", "6", "4">>}

DefaultArch(architecture) ==
    IF architecture = <<"a", "r", "m", "6", "4">> THEN <<"a", "a", "r", "c", "h", "6", "4">>
    ELSE IF architecture = <<"p", "p", "c", "6", "4", "l", "e">> THEN <<"p", "p", "c", "6", "4", "l", "e">>
    ELSE IF architecture = <<"a", "m", "d", "6", "4">> THEN <<"x", "8", "6", "_", "6", "4">>
    ELSE <<>>

DefaultMachine(architecture) ==
    IF architecture = <<"a", "r", "m", "6", "4">> THEN <<"v", "i", "r", "t">>
    ELSE IF architecture = <<"p", "p", "c", "6", "4", "l", "e">> THEN <<"p", "s", "e", "r", "i", "e", "s">>
    ELSE IF architecture = <<"a", "m", "d", "6", "4">> THEN <<"q", "3", "5">>
    ELSE <<>>

\* NewDefaulter(arch).SetObjectDefaults_Domain(domain): fills what is unset
SetObjectDefaults_Domain(architecture, in) ==
    [in EXCEPT
       !.Spec.XmlNS = LibvirtNamespace,
       !.Spec.Type = IF @ = <<>> THEN <<"k", "v", "m">> ELSE @,
       !.Spec.OS.Type.OS = <<"h", "v", "m">>,
       !.Spec.OS.Type.Arch = IF @ = <<>> THEN DefaultArch(architecture) ELSE @,
       !.Spec.OS.Type.Machine = IF @ = <<>> THEN DefaultMachine(architecture) ELSE @]

xmlDataDomainSEVSNP ==
    Element("domain", <<Attr("xmlns", <<"h", "t", "t", "p", ":", "/", "/", "l", "i", "b", "v", "i", "r", "t", ".", "o", "r", "g", "/", "s", "c", "h", "e", "m", "a", "s", "/", "d", "o", "m", "a", "i", "n", "/", "q", "e", "m", "u", "/", "1", ".", "0">>), Attr("type", <<"k", "v", "m">>)>>, <<
      Element("name", <<>>, <<>>, <<"t", "e", "s", "t", "-", "d", "o", "m", "a", "i", "n">>),
      Element("memory", <<Attr("unit", <<"K", "i", "B">>)>>, <<>>, <<"8", "3", "8", "8", "6", "0", "8">>),
      Element("currentMemory", <<Attr("unit", <<"K", "i", "B">>)>>, <<>>, <<"8", "3", "8", "8", "6", "0", "8">>),
      Element("vcpu", <<Attr("placement", <<"s", "t", "a", "t", "i", "c">>)>>, <<>>, <<"2">>),
      Element("launchSecurity", <<Attr("type", <<"s", "e", "v", "-", "s", "n", "p">>)>>, <<
        Element("policy", <<>>, <<>>, <<"0", "x", "3", "0", "0", "0", "0">>),
        Element("authorKey", <<>>, <<>>, <<"y", "e", "s">>),
        Element("vcek", <<>>, <<>>, <<"y", "e", "s">>),
        Element("idAuth", <<>>, <<>>, <<"t", "e", "s", "t", "-", "i", "d", "-", "a", "u", "t", "h">>),
        Element("idBlock", <<>>, <<>>, <<"t", "e", "s", "t", "-", "i", "d", "-", "b", "l", "o", "c", "k">>),
        Element("hostData", <<>>, <<>>, <<"t", "e", "s", "t", "-", "h", "o", "s", "t", "-", "d", "a", "t", "a">>)>>, <<>>),
      Element("os", <<>>, <<
        Element("type", <<Attr("arch", <<"x", "8", "6", "_", "6", "4">>), Attr("machine", <<"p", "c", "-", "i", "4", "4", "0", "f", "x", "-", "2", ".", "1">>)>>, <<>>, <<"h", "v", "m">>)>>, <<>>),
      Element("devices", <<>>, <<
        Element("emulator", <<>>, <<>>, <<"/", "u", "s", "r", "/", "b", "i", "n", "/", "q", "e", "m", "u", "-", "s", "y", "s", "t", "e", "m", "-", "x", "8", "6", "_", "6", "4">>)>>, <<>>)>>, <<>>)

launchSecurityOfDomainTest ==
    [launchSecurityAllFields EXCEPT
        !.AMD.DHCert = <<>>, !.AMD.Session = <<>>, !.AMD.Cbitpos = <<>>,
        !.AMD.ReducedPhysBits = <<>>]

\* the expected value of the NUMA topology test
expectedSpec ==
    LET d == NewMinimalDomainSpec(<<>>)
    IN  [d EXCEPT
           !.CPU.NUMA = [Cells |-> <<[ID |-> <<"0">>, CPUs |-> <<"0", "-", "1">>, Memory |-> 3, Unit |-> <<"G", "i", "B">>],
                                     [ID |-> <<"1">>, CPUs |-> <<"2", "-", "3">>, Memory |-> 3, Unit |-> <<"G", "i", "B">>]>>],
           !.CPUTune = [VCPUPin |-> <<[VCPU |-> 0, CPUSet |-> <<"1">>], [VCPU |-> 1, CPUSet |-> <<"5">>],
                                      [VCPU |-> 2, CPUSet |-> <<"2">>], [VCPU |-> 3, CPUSet |-> <<"6">>]>>,
                        IOThreadPin |-> <<>>,
                        EmulatorPin |-> Nil],
           !.NUMATune = [Memory |-> [Mode |-> <<"s", "t", "r", "i", "c", "t">>, NodeSet |-> <<"1", "-", "2">>],
                         MemNodes |-> <<[CellID |-> 0, Mode |-> <<"s", "t", "r", "i", "c", "t">>, NodeSet |-> <<"1">>],
                                        [CellID |-> 2, Mode |-> <<"p", "r", "e", "f", "e", "r", "r", "e", "d">>, NodeSet |-> <<"2">>]>>]]

\* the expected value of the CPU pinning test
exampleCpuTune ==
    [VCPUPin |-> <<[VCPU |-> 0, CPUSet |-> <<"1">>], [VCPU |-> 1, CPUSet |-> <<"5">>]>>,
     IOThreadPin |-> <<[IOThread |-> 0, CPUSet |-> <<"1">>], [IOThread |-> 1, CPUSet |-> <<"5">>]>>,
     EmulatorPin |-> [CPUSet |-> <<"6">>]]

MachineOfDomainTest == <<"p", "c", "-", "i", "4", "4", "0", "f", "x", "-", "2", ".", "1">>

\* what the controller may put in a domain
Balloonings == {[Model |-> m, Stats |-> s] : m \in {None, VirtIO}, s \in {Nil, [Period |-> 10]}}

DomainLaunchSecurities ==
    {launchSecurityOfDomainTest, launchSecurityMinimal, launchSecurityEmptyAMD,
     launchSecurityNilAMD}

DiskAliases ==
    {Nil, newLibvirtManagedAlias(<<"x">>),
     NewUserDefinedAlias(<<"u", "a", "-", "x">>), newLibvirtManagedAlias(<<"u", "a", "-", "x">>)}

\* vCPU, IO-thread and cell ids: not contiguous, appended in any order
UnitIds == {0, MaxUnitId}

\* &Features{...} values: empty, with one empty member, with one member that has a value
FeatureSets ==
    {EmptyFeatures,
     [EmptyFeatures EXCEPT !.ACPI = FeatureEnabled],
     [EmptyFeatures EXCEPT !.PMU = [State |-> <<>>]],
     [ACPI |-> FeatureEnabled, SMM |-> FeatureEnabled, PMU |-> [State |-> <<"o", "f", "f">>]]}

\* optional structures that can be present with every field zero-valued
ZeroValuedFields == {"CPUTune", "NUMA", "Ballooning", "LaunchSecurity"}

SetZeroValued(d, k) ==
    CASE k = "CPUTune" ->
           [d EXCEPT !.Spec.CPUTune = [VCPUPin |-> <<>>, IOThreadPin |-> <<>>, EmulatorPin |-> Nil]]
      [] k = "NUMA" -> [d EXCEPT !.Spec.CPU.NUMA = [Cells |-> <<>>]]
      [] k = "Ballooning" -> [d EXCEPT !.Spec.Devices.Ballooning = [Model |-> <<>>, Stats |-> Nil]]
      [] k = "LaunchSecurity" -> [d EXCEPT !.Spec.LaunchSecurity = [Type |-> <<>>, AMD |-> Nil]]

EmptyCPUTune == [VCPUPin |-> <<>>, IOThreadPin |-> <<>>, EmulatorPin |-> Nil]

EmptyNUMATune == [Memory |-> [Mode |-> <<"s", "t", "r", "i", "c", "t">>, NodeSet |-> <<"1", "-", "2">>], MemNodes |-> <<>>]

----------------------------------------------------------------------------
(* Domain.DeepCopy: a Domain in memory *)

\* A *Domain points to a struct that holds Spec.Devices.Ballooning (*MemBalloon, which
\* holds Stats, a *Stats) and Spec.Devices.Disks (a slice over a backing array). heap
\* holds one cell per allocation; the struct keeps the index of each cell it points to.

AllocStats(h, stats) ==
    IF stats = Nil THEN [heap |-> h, ref |-> 0]
    ELSE [heap |-> Append(h, stats), ref |-> Len(h) + 1]

AllocMemBalloon(h, b) ==
    IF b = Nil THEN [heap |-> h, ref |-> 0]
    ELSE LET s == AllocStats(h, b.Stats)
         IN  [heap |-> Append(s.heap, [b EXCEPT !.Stats = s.ref]), ref |-> Len(s.heap) + 1]

AllocDisks(h, disks) ==
    IF disks = <<>> THEN [heap |-> h, ref |-> 0]
    ELSE [heap |-> Append(h, disks), ref |-> Len(h) + 1]

AllocDomain(h, d) ==
    LET b  == AllocMemBalloon(h, d.Spec.Devices.Ballooning)
        ds == AllocDisks(b.heap, d.Spec.Devices.Disks)
    IN  [heap |-> Append(ds.heap, [d EXCEPT !.Spec.Devices.Ballooning = b.ref,
                                            !.Spec.Devices.Disks = ds.ref]),
         ref |-> Len(ds.heap) + 1]

\* the value a pointer leads to, every pointer in it followed
LoadStats(h, r) == IF r = 0 THEN Nil ELSE h[r]

LoadMemBalloon(h, r) == IF r = 0 THEN Nil ELSE [h[r] EXCEPT !.Stats = LoadStats(h, @)]

LoadDisks(h, r) == IF r = 0 THEN <<>> ELSE h[r]

LoadDomain(h, r) ==
    [h[r] EXCEPT !.Spec.Devices.Ballooning = LoadMemBalloon(h, @),
                 !.Spec.Devices.Disks = LoadDisks(h, @)]

BallooningRef(h, r) == h[r].Spec.Devices.Ballooning

StatsRef(h, r) == IF BallooningRef(h, r) = 0 THEN 0 ELSE h[BallooningRef(h, r)].Stats

DisksRef(h, r) == h[r].Spec.Devices.Disks

\* the cells reachable from a *Domain
Reachable(h, r) == {r, BallooningRef(h, r), StatsRef(h, r), DisksRef(h, r)} \ {0}

\* out := new(Domain); in.DeepCopyInto(out): every pointer and slice gets a cell of its own
Domain_DeepCopy(h, in) == AllocDomain(h, LoadDomain(h, in))

\* domains that get copied
CopiedDomains ==
    {exampleDomain,
     NewMinimalDomainWithNS(<<"m", "y", "n", "a", "m", "e", "s", "p", "a", "c", "e">>,
                            <<"t", "e", "s", "t", "v", "m", "i">>),
     [exampleDomain EXCEPT !.Spec.Devices.Ballooning = [Model |-> VirtIO, Stats |-> Nil]]}

\* what a mutation may write
MutatedBalloonings == Balloonings \cup {Nil, [Model |-> None, Stats |-> [Period |-> 5]]}

MutatedTarget == <<"s", "d", "a">>

MutatedName == <<"o", "t", "h", "e", "r">>

----------------------------------------------------------------------------
(* SEV predicates of pkg/util (amd64.go) *)

\* what a call gives: a value, or a nil pointer dereference
Ret(b) == [panic |-> FALSE, value |-> b]

Panic == [panic |-> TRUE, value |-> FALSE]

\* &v1.SEVAttestation{} and &v1.SEVSNP{}: structs the predicates only test for nil
SEVAttestation == [attestation |-> TRUE]

SEVSNP == [snp |-> TRUE]

\* *bool
BoolPtrs == {Nil, [deref |-> TRUE], [deref |-> FALSE]}

SEVPolicies == {Nil} \cup {[EncryptedState |-> e] : e \in BoolPtrs}

SEVs == {Nil} \cup {[Policy |-> p, Attestation |-> a] : p \in SEVPolicies, a \in {Nil, SEVAttestation}}

VMILaunchSecurities == {Nil} \cup {[SEV |-> s, SNP |-> n] : s \in SEVs, n \in {Nil, SEVSNP}}

VMIs == {[Spec |-> [Domain |-> [LaunchSecurity |-> l]]] : l \in VMILaunchSecurities}

IsSEVVMI_SEVOnly(v) ==
    LET ls == v.Spec.Domain.LaunchSecurity
    IN  IF ls = Nil THEN Ret(FALSE)
        ELSE Ret(ls.SEV # Nil)

\* ls != nil && (ls.SEV != nil || ls.SNP != nil): the right side is evaluated, and ls
\* dereferenced, only when the left side holds
IsSEVVMI(v) ==
    LET ls == v.Spec.Domain.LaunchSecurity
    IN  IF ls = Nil THEN Ret(FALSE)
        ELSE Ret(ls.SEV # Nil \/ ls.SNP # Nil)

IsSEVESVMI(v) ==
    LET ls == v.Spec.Domain.LaunchSecurity
    IN  IF IsSEVVMI(v).panic THEN Panic
        ELSE IF ~IsSEVVMI(v).value THEN Ret(FALSE)
        ELSE IF ls = Nil THEN Panic                  \* ls.SEV
        ELSE IF ls.SEV = Nil THEN Ret(FALSE)
        ELSE IF ls.SEV.Policy = Nil THEN Ret(FALSE)
        ELSE IF ls.SEV.Policy.EncryptedState = Nil THEN Ret(FALSE)
        ELSE Ret(ls.SEV.Policy.EncryptedState.deref)

IsSEVSNPVMI(v) ==
    LET ls == v.Spec.Domain.LaunchSecurity
    IN  IF IsSEVVMI(v).panic THEN Panic
        ELSE IF ~IsSEVVMI(v).value THEN Ret(FALSE)
        ELSE IF ls = Nil THEN Panic                  \* ls.SNP
        ELSE IF ls.SNP = Nil THEN Ret(FALSE)
        ELSE Ret(TRUE)

IsSEVAttestationRequested_IgnoresSNP(v) ==
    LET ls == v.Spec.Domain.LaunchSecurity
    IN  IF IsSEVVMI(v).panic THEN Panic
        ELSE IF ~IsSEVVMI(v).value THEN Ret(FALSE)
        ELSE IF ls = Nil THEN Panic
        ELSE IF ls.SEV = Nil THEN Ret(FALSE)
        ELSE Ret(ls.SEV.Attestation # Nil)

IsSEVAttestationRequested(v) ==
    LET ls == v.Spec.Domain.LaunchSecurity
    IN  IF IsSEVVMI(v).panic THEN Panic
        ELSE IF ~IsSEVVMI(v).value THEN Ret(FALSE)
        ELSE IF IsSEVSNPVMI(v).panic THEN Panic
        ELSE IF IsSEVSNPVMI(v).value THEN Ret(FALSE)
        ELSE IF ls = Nil THEN Panic                  \* ls.SEV
        ELSE IF ls.SEV = Nil THEN Ret(FALSE)
        ELSE Ret(ls.SEV.Attestation # Nil)

Predicates == {"IsSEVVMI", "IsSEVESVMI", "IsSEVSNPVMI", "IsSEVAttestationRequested"}

----------------------------------------------------------------------------
(* Operations *)

Init ==
    /\ pc = "idle"
    /\ alias = Nil
    /\ aliasXML = Nil
    /\ aliasJSON = Nil
    /\ newAlias = Nil
    /\ via = "none"
    /\ aliasCtor = "none"
    /\ aliasArg = <<>>
    /\ launchSecurity = Nil
    /\ lsXML = Nil
    /\ newLaunchSecurity = Nil
    /\ domain = Nil
    /\ domainXML = Nil
    /\ newDomain = Nil
    /\ arch = <<>>
    /\ defaults = 0
    /\ onceDefaulted = Nil
    /\ edits = 0
    /\ base = "none"
    /\ heap = <<>>
    /\ original = 0
    /\ copy = 0
    /\ snapshot = Nil
    /\ mutations = 0
    /\ vmi = Nil
    /\ called = {}
    /\ ret = <<>>

\* alias := NewUserDefinedAlias(name)
DoNewUserDefinedAlias ==
    /\ pc = "idle"
    /\ \E n \in BareNames :
          /\ alias' = NewUserDefinedAlias(n)
          /\ aliasArg' = n
    /\ aliasCtor' = "user"
    /\ pc' = "alias"
    /\ UNCHANGED <<copyVars, vmiVars, aliasXML, aliasJSON, newAlias, via, lsVars, domVars>>

\* alias := newLibvirtManagedAlias(name)
DoNewLibvirtManagedAlias ==
    /\ pc = "idle"
    /\ \E n \in BareNames :
          /\ alias' = newLibvirtManagedAlias(n)
          /\ aliasArg' = n
    /\ aliasCtor' = "libvirt"
    /\ pc' = "alias"
    /\ UNCHANGED <<copyVars, vmiVars, aliasXML, aliasJSON, newAlias, via, lsVars, domVars>>

\* xmlBytes, err := xml.Marshal(alias)
DoAliasMarshalXML ==
    /\ pc = "alias"
    /\ alias # Nil
    /\ aliasXML = Nil /\ aliasJSON = Nil
    /\ aliasXML' = Alias_MarshalXML(alias, "Alias")
    /\ UNCHANGED <<copyVars, vmiVars, pc, alias, aliasJSON, newAlias, via, aliasCtor, aliasArg, lsVars, domVars>>

\* newAlias := &Alias{}; xml.Unmarshal(xmlBytes, newAlias)
DoAliasUnmarshalXML ==
    /\ pc = "alias"
    /\ aliasXML # Nil
    /\ newAlias = Nil
    /\ newAlias' = Alias_UnmarshalXML(aliasXML)
    /\ via' = "xml"
    /\ UNCHANGED <<copyVars, vmiVars, pc, alias, aliasXML, aliasJSON, aliasCtor, aliasArg, lsVars, domVars>>

\* jsonBytes, err := json.Marshal(alias)
DoAliasMarshalJSON ==
    /\ pc = "alias"
    /\ alias # Nil
    /\ aliasXML = Nil /\ aliasJSON = Nil
    /\ aliasJSON' = Alias_MarshalJSON(alias)
    /\ UNCHANGED <<copyVars, vmiVars, pc, alias, aliasXML, newAlias, via, aliasCtor, aliasArg, lsVars, domVars>>

\* newAlias := &Alias{}; json.Unmarshal(jsonBytes, newAlias)
DoAliasUnmarshalJSON ==
    /\ pc = "alias"
    /\ aliasJSON # Nil
    /\ newAlias = Nil
    /\ newAlias' = Alias_UnmarshalJSON(aliasJSON)
    /\ via' = "json"
    /\ UNCHANGED <<copyVars, vmiVars, pc, alias, aliasXML, aliasJSON, aliasCtor, aliasArg, lsVars, domVars>>

\* launchSecurity := &LaunchSecurity{Type: ..., AMD: ...}
DoNewLaunchSecurity ==
    /\ pc = "idle"
    /\ \E l \in LaunchSecurities : launchSecurity' = l
    /\ pc' = "ls"
    /\ UNCHANGED <<copyVars, vmiVars, aliasVars, lsXML, newLaunchSecurity, domVars>>

\* xmlBytes, err := xml.Marshal(launchSecurity)
DoLaunchSecurityMarshalXML ==
    /\ pc = "ls"
    /\ launchSecurity # Nil
    /\ lsXML = Nil
    /\ lsXML' = LaunchSecurity_MarshalXML(launchSecurity, "LaunchSecurity")
    /\ UNCHANGED <<copyVars, vmiVars, pc, aliasVars, launchSecurity, newLaunchSecurity, domVars>>

\* xmlData := `<LaunchSecurity ...>`, a document from elsewhere
DoReceiveLaunchSecurityXML ==
    /\ pc = "idle"
    /\ \E doc \in LaunchSecurityDocs : lsXML' = doc
    /\ pc' = "ls"
    /\ UNCHANGED <<copyVars, vmiVars, aliasVars, launchSecurity, newLaunchSecurity, domVars>>

\* var launchSecurity LaunchSecurity; xml.Unmarshal(xmlData, &launchSecurity)
DoLaunchSecurityUnmarshalXML ==
    /\ pc = "ls"
    /\ lsXML # Nil
    /\ newLaunchSecurity = Nil
    /\ newLaunchSecurity' = LaunchSecurity_UnmarshalXML(lsXML)
    /\ UNCHANGED <<copyVars, vmiVars, pc, aliasVars, launchSecurity, lsXML, domVars>>

\* domain := NewMinimalDomainWithNS("mynamespace", "testvmi")
DoNewMinimalDomain ==
    /\ pc = "idle"
    /\ domain' = NewMinimalDomainWithNS(<<"m", "y", "n", "a", "m", "e", "s", "p", "a", "c", "e">>,
                                         <<"t", "e", "s", "t", "v", "m", "i">>)
    /\ base' = "minimal"
    /\ pc' = "domain"
    /\ UNCHANGED <<copyVars, vmiVars, aliasVars, lsVars, domainXML, newDomain, arch, defaults, onceDefaulted, edits>>

\* BeforeEach: exampleDomain, and its copy with the "none" memballoon; the tests use
\* them as they are
DoBeforeEach ==
    /\ pc = "idle"
    /\ domain' \in {exampleDomain, exampleDomainWithMemballonDevice}
    /\ base' = "example"
    /\ pc' = "domain"
    /\ UNCHANGED <<copyVars, vmiVars, aliasVars, lsVars, domainXML, newDomain, arch, defaults, onceDefaulted, edits>>

\* the values the NUMA topology and CPU pinning tests expect, held in a domain
DoExpectedSpec ==
    /\ pc = "idle"
    /\ domain' \in {[Namespace |-> <<>>, Name |-> <<>>, Spec |-> expectedSpec],
                     [Namespace |-> <<>>, Name |-> <<>>,
                      Spec |-> [NewMinimalDomainSpec(<<>>) EXCEPT !.CPUTune = exampleCpuTune]]}
    /\ base' = "expected"
    /\ pc' = "domain"
    /\ UNCHANGED <<copyVars, vmiVars, aliasVars, lsVars, domainXML, newDomain, arch, defaults, onceDefaulted, edits>>

\* the controller sets fields of a minimal domain before defaulting and marshalling
Building ==
    /\ pc = "domain"
    /\ domain # Nil
    /\ base = "minimal"
    /\ domainXML = Nil
    /\ defaults = 0
    /\ edits < MaxEdits

Edited ==
    /\ edits' = edits + 1
    /\ UNCHANGED <<copyVars, vmiVars, pc, aliasVars, lsVars, domainXML, newDomain, arch, defaults, onceDefaulted, base>>

\* domain.Spec.Devices.Ballooning = &MemBalloon{...}
DoSetBallooning ==
    /\ Building
    /\ \E b \in Balloonings : domain' = [domain EXCEPT !.Spec.Devices.Ballooning = b]
    /\ Edited

\* domain.Spec.Features = &Features{...}
DoSetFeatures ==
    /\ Building
    /\ \E f \in FeatureSets : domain' = [domain EXCEPT !.Spec.Features = f]
    /\ Edited

\* domain.Spec.CPUTune = &CPUTune{}, and the like
DoSetZeroValued ==
    /\ Building
    /\ \E k \in ZeroValuedFields : domain' = SetZeroValued(domain, k)
    /\ Edited

\* domain.Spec.OS.Type.Machine = "pc-i440fx-2.1"
DoSetMachine ==
    /\ Building
    /\ domain' = [domain EXCEPT !.Spec.OS.Type.Machine = MachineOfDomainTest]
    /\ Edited

\* domain.Spec.LaunchSecurity = &LaunchSecurity{...}
DoSetLaunchSecurity ==
    /\ Building
    /\ \E l \in DomainLaunchSecurities : domain' = [domain EXCEPT !.Spec.LaunchSecurity = l]
    /\ Edited

\* domain.Spec.Devices.Disks = append(..., Disk{...})
DoAddDisk ==
    /\ Building
    /\ \E a \in DiskAliases :
          domain' = [domain EXCEPT !.Spec.Devices.Disks = Append(@, Disk(<<"f", "i", "l", "e">>, <<"v", "d", "d">>, a))]
    /\ Edited

\* domain.Spec.CPU.NUMA.Cells = append(..., NUMACell{...})
DoAddNUMACell ==
    /\ Building
    /\ \E id \in UnitIds :
          LET cell  == [ID |-> FormatUint(id), CPUs |-> <<"0", "-", "1">>, Memory |-> 3, Unit |-> <<"G", "i", "B">>]
              cells == IF domain.Spec.CPU.NUMA = Nil THEN <<>> ELSE domain.Spec.CPU.NUMA.Cells
          IN  domain' = [domain EXCEPT !.Spec.CPU.NUMA = [Cells |-> Append(cells, cell)]]
    /\ Edited

\* domain.Spec.CPUTune.VCPUPin = append(..., CPUTuneVCPUPin{...})
DoAddVCPUPin ==
    /\ Building
    /\ \E id \in UnitIds :
          LET tune == IF domain.Spec.CPUTune = Nil THEN EmptyCPUTune ELSE domain.Spec.CPUTune
          IN  domain' = [domain EXCEPT !.Spec.CPUTune =
                            [tune EXCEPT !.VCPUPin = Append(@, [VCPU |-> id, CPUSet |-> <<"1">>])]]
    /\ Edited

\* domain.Spec.CPUTune.IOThreadPin = append(..., CPUTuneIOThreadPin{...})
DoAddIOThreadPin ==
    /\ Building
    /\ \E id \in UnitIds :
          LET tune == IF domain.Spec.CPUTune = Nil THEN EmptyCPUTune ELSE domain.Spec.CPUTune
          IN  domain' = [domain EXCEPT !.Spec.CPUTune =
                            [tune EXCEPT !.IOThreadPin =
                                Append(@, [IOThread |-> id, CPUSet |-> <<"5">>])]]
    /\ Edited

\* domain.Spec.CPUTune.EmulatorPin = &CPUEmulatorPin{CPUSet: "6"}
DoSetEmulatorPin ==
    /\ Building
    /\ LET tune == IF domain.Spec.CPUTune = Nil THEN EmptyCPUTune ELSE domain.Spec.CPUTune
       IN  domain' = [domain EXCEPT !.Spec.CPUTune =
                         [tune EXCEPT !.EmulatorPin = [CPUSet |-> <<"6">>]]]
    /\ Edited

\* domain.Spec.NUMATune.MemNodes = append(..., MemNode{...})
DoAddMemNode ==
    /\ Building
    /\ \E id \in UnitIds :
          LET tune == IF domain.Spec.NUMATune = Nil THEN EmptyNUMATune ELSE domain.Spec.NUMATune
          IN  domain' = [domain EXCEPT !.Spec.NUMATune =
                            [tune EXCEPT !.MemNodes =
                                Append(@, [CellID |-> id, Mode |-> <<"s", "t", "r", "i", "c", "t">>, NodeSet |-> <<"1">>])]]
    /\ Edited

DoSetObjectDefaults_Appending ==
    /\ pc = "domain"
    /\ domain # Nil
    /\ domainXML = Nil
    /\ \E a \in Architectures :
          /\ defaults > 0 => a = arch
          /\ arch' = a
          /\ domain' = [SetObjectDefaults_Domain(a, domain) EXCEPT
                           !.Spec.OS.Type.Machine =
                               domain.Spec.OS.Type.Machine \o DefaultMachine(a)]
    /\ onceDefaulted' = IF defaults = 0 THEN domain' ELSE onceDefaulted
    /\ defaults' = IF defaults = 0 THEN 1 ELSE 2
    /\ UNCHANGED <<copyVars, vmiVars, pc, aliasVars, lsVars, domainXML, newDomain, edits, base>>

\* NewDefaulter(arch).SetObjectDefaults_Domain(domain), again with the same arch
DoSetObjectDefaults ==
    /\ pc = "domain"
    /\ domain # Nil
    /\ domainXML = Nil
    /\ \E a \in Architectures :
          /\ defaults > 0 => a = arch
          /\ arch' = a
          /\ domain' = SetObjectDefaults_Domain(a, domain)
    /\ onceDefaulted' = IF defaults = 0 THEN domain' ELSE onceDefaulted
    /\ defaults' = IF defaults = 0 THEN 1 ELSE 2
    /\ UNCHANGED <<copyVars, vmiVars, pc, aliasVars, lsVars, domainXML, newDomain, edits, base>>

\* buf, err := xml.Marshal(domain.Spec)
DoDomainMarshalXML ==
    /\ pc = "domain"
    /\ domain # Nil
    /\ domainXML = Nil
    /\ domainXML' = DomainSpec_MarshalXML(domain.Spec)
    /\ UNCHANGED <<copyVars, vmiVars, pc, aliasVars, lsVars, domain, newDomain, arch, defaults, onceDefaulted, edits, base>>

\* xmlData := `<domain ...>`, a document from elsewhere
DoReceiveDomainXML ==
    /\ pc = "idle"
    /\ domainXML' = xmlDataDomainSEVSNP
    /\ pc' = "domain"
    /\ UNCHANGED <<copyVars, vmiVars, aliasVars, lsVars, domain, newDomain, arch, defaults, onceDefaulted, edits, base>>

DoDomainUnmarshalXML_EmptyAsAbsent ==
    /\ pc = "domain"
    /\ domainXML # Nil
    /\ newDomain = Nil
    /\ newDomain' = [DomainSpec_UnmarshalXML(domainXML) EXCEPT
                        !.Features = IF @ = EmptyFeatures THEN Nil ELSE @]
    /\ UNCHANGED <<copyVars, vmiVars, pc, aliasVars, lsVars, domain, domainXML, arch, defaults,
                   onceDefaulted, edits, base>>

DoDomainUnmarshalXML_ReversedVCPUPin ==
    /\ pc = "domain"
    /\ domainXML # Nil
    /\ newDomain = Nil
    /\ newDomain' =
          LET d == DomainSpec_UnmarshalXML(domainXML)
          IN  IF d.CPUTune = Nil THEN d
              ELSE [d EXCEPT !.CPUTune.VCPUPin =
                                [i \in 1..Len(@) |-> @[Len(@) + 1 - i]]]
    /\ UNCHANGED <<copyVars, vmiVars, pc, aliasVars, lsVars, domain, domainXML, arch, defaults, onceDefaulted, edits,
                   base>>

\* newDomain := DomainSpec{}; xml.Unmarshal(buf, &newDomain)
DoDomainUnmarshalXML ==
    /\ pc = "domain"
    /\ domainXML # Nil
    /\ newDomain = Nil
    /\ newDomain' = DomainSpec_UnmarshalXML(domainXML)
    /\ UNCHANGED <<copyVars, vmiVars, pc, aliasVars, lsVars, domain, domainXML, arch, defaults, onceDefaulted, edits,
                   base>>

\* exampleDomain = NewMinimalDomainWithNS(...); exampleDomain.Spec.Devices... = ...
DoNewCopiedDomain ==
    /\ pc = "idle"
    /\ \E d \in CopiedDomains :
          LET a == AllocDomain(heap, d)
          IN  /\ heap' = a.heap
              /\ original' = a.ref
    /\ pc' = "copy"
    /\ UNCHANGED <<aliasVars, lsVars, domVars, vmiVars, copy, snapshot, mutations>>

DoDeepCopy_Shallow ==
    /\ pc = "copy"
    /\ copy = 0
    /\ heap' = Append(heap, heap[original])
    /\ copy' = Len(heap) + 1
    /\ snapshot' = LoadDomain(heap, original)
    /\ UNCHANGED <<pc, aliasVars, lsVars, domVars, vmiVars, original, mutations>>

\* exampleDomainWithMemballonDevice = exampleDomain.DeepCopy()
DoDeepCopy ==
    /\ pc = "copy"
    /\ copy = 0
    /\ LET c == Domain_DeepCopy(heap, original)
       IN  /\ heap' = c.heap
           /\ copy' = c.ref
    /\ snapshot' = LoadDomain(heap, original)
    /\ UNCHANGED <<pc, aliasVars, lsVars, domVars, vmiVars, original, mutations>>

Mutating ==
    /\ pc = "copy"
    /\ copy # 0
    /\ mutations < MaxMutations

Mutated ==
    /\ mutations' = mutations + 1
    /\ UNCHANGED <<pc, aliasVars, lsVars, domVars, vmiVars, original, copy, snapshot>>

\* exampleDomainWithMemballonDevice.Spec.Devices.Ballooning = &MemBalloon{...}
DoReplaceBallooning ==
    /\ Mutating
    /\ \E b \in MutatedBalloonings :
          LET a == AllocMemBalloon(heap, b)
          IN  heap' = [a.heap EXCEPT ![copy].Spec.Devices.Ballooning = a.ref]
    /\ Mutated

\* copy.Spec.Devices.Ballooning.Model = ...
DoSetBallooningModel ==
    /\ Mutating
    /\ BallooningRef(heap, copy) # 0
    /\ \E m \in {None, VirtIO} :
          /\ m # heap[BallooningRef(heap, copy)].Model
          /\ heap' = [heap EXCEPT ![BallooningRef(heap, copy)].Model = m]
    /\ Mutated

\* copy.Spec.Devices.Ballooning.Stats.Period = ...
DoSetStatsPeriod ==
    /\ Mutating
    /\ StatsRef(heap, copy) # 0
    /\ heap' = [heap EXCEPT ![StatsRef(heap, copy)].Period = IF @ = 5 THEN 10 ELSE 5]
    /\ Mutated

\* copy.Spec.Devices.Disks[i].Target = ...
DoSetDiskTarget ==
    /\ Mutating
    /\ DisksRef(heap, copy) # 0
    /\ \E i \in 1..Len(heap[DisksRef(heap, copy)]) :
          /\ heap[DisksRef(heap, copy)][i].Target # MutatedTarget
          /\ heap' = [heap EXCEPT ![DisksRef(heap, copy)][i].Target = MutatedTarget]
    /\ Mutated

\* copy.Name = ...
DoSetCopyName ==
    /\ Mutating
    /\ heap[copy].Name # MutatedName
    /\ heap' = [heap EXCEPT ![copy].Name = MutatedName]
    /\ Mutated

\* a VMI spec reaches the predicates
DoNewVMI ==
    /\ pc = "idle"
    /\ vmi' \in VMIs
    /\ pc' = "vmi"
    /\ UNCHANGED <<aliasVars, lsVars, domVars, copyVars, called, ret>>

Calling(name) ==
    /\ pc = "vmi"
    /\ name \notin called

Returned(name, r) ==
    /\ called' = called \cup {name}
    /\ ret' = [n \in called \cup {name} |-> IF n = name THEN r ELSE ret[n]]
    /\ UNCHANGED <<pc, aliasVars, lsVars, domVars, copyVars, vmi>>

DoIsSEVVMI ==
    /\ Calling("IsSEVVMI")
    /\ Returned("IsSEVVMI", IsSEVVMI(vmi))

DoIsSEVESVMI ==
    /\ Calling("IsSEVESVMI")
    /\ Returned("IsSEVESVMI", IsSEVESVMI(vmi))

DoIsSEVSNPVMI ==
    /\ Calling("IsSEVSNPVMI")
    /\ Returned("IsSEVSNPVMI", IsSEVSNPVMI(vmi))

DoIsSEVAttestationRequested ==
    /\ Calling("IsSEVAttestationRequested")
    /\ Returned("IsSEVAttestationRequested", IsSEVAttestationRequested(vmi))

Next ==
    \/ DoNewUserDefinedAlias
    \/ DoNewLibvirtManagedAlias
    \/ DoAliasMarshalXML
    \/ DoAliasUnmarshalXML
    \/ DoAliasMarshalJSON
    \/ DoAliasUnmarshalJSON
    \/ DoNewLaunchSecurity
    \/ DoLaunchSecurityMarshalXML
    \/ DoReceiveLaunchSecurityXML
    \/ DoLaunchSecurityUnmarshalXML
    \/ DoNewMinimalDomain
    \/ DoBeforeEach
    \/ DoExpectedSpec
    \/ DoSetMachine
    \/ DoSetFeatures
    \/ DoSetZeroValued
    \/ DoSetBallooning
    \/ DoSetLaunchSecurity
    \/ DoAddDisk
    \/ DoAddNUMACell
    \/ DoAddVCPUPin
    \/ DoAddIOThreadPin
    \/ DoSetEmulatorPin
    \/ DoAddMemNode
    \/ DoSetObjectDefaults
    \/ DoDomainMarshalXML
    \/ DoReceiveDomainXML
    \/ DoDomainUnmarshalXML
    \/ DoNewVMI
    \/ DoIsSEVVMI
    \/ DoIsSEVESVMI
    \/ DoIsSEVSNPVMI
    \/ DoIsSEVAttestationRequested
    \/ DoNewCopiedDomain
    \/ DoDeepCopy
    \/ DoReplaceBallooning
    \/ DoSetBallooningModel
    \/ DoSetStatsPeriod
    \/ DoSetDiskTarget
    \/ DoSetCopyName

Spec == Init /\ [][Next]_vars

----------------------------------------------------------------------------
(* Alias claims *)

AliasEncodedXML == pc = "alias" /\ alias # Nil /\ aliasXML # Nil

AliasDecodedXML == AliasEncodedXML /\ newAlias # Nil /\ via = "xml"

AliasDecodedJSON == pc = "alias" /\ alias # Nil /\ aliasJSON # Nil /\ newAlias # Nil /\ via = "json"

WireName == AttrValue(aliasXML, "name")

\* C2 as stated: for every alias and every bare name, XML marshal then unmarshal
\* gives back the bare name and the flag that were encoded.
C2_RoundTripEveryName ==
    AliasDecodedXML =>
        /\ GetName(newAlias) = aliasArg
        /\ IsUserDefined(newAlias) = (aliasCtor = "user")

\* C2 amended: the XML round trip gives back (name, isUserDefined) for every
\* user-defined alias and for every system-managed alias whose bare name does not
\* begin with "ua-"; a system-managed alias named "ua-"+r comes back as the
\* user-defined alias named r.
C2_RoundTripUnlessSystemNameHasPrefix ==
    AliasDecodedXML =>
        IF aliasCtor = "libvirt" /\ HasPrefix(aliasArg, UserAliasPrefix)
        THEN /\ GetName(newAlias) = SubSeq(aliasArg, 4, Len(aliasArg))
             /\ IsUserDefined(newAlias)
        ELSE /\ GetName(newAlias) = aliasArg
             /\ IsUserDefined(newAlias) = (aliasCtor = "user")

C2_Witness ==
    /\ AliasDecodedXML
    /\ aliasCtor = "libvirt"
    /\ aliasArg = testAliasName
    /\ GetName(newAlias) = testAliasName
    /\ ~IsUserDefined(newAlias)

\* C3 as stated: the wire name is "ua-"+bare for a user-defined alias and bare for a
\* system-managed one, and the name accessor returns the bare name that was given and
\* never a string that starts with "ua-", for constructed and for decoded aliases.
C3_WirePrefixAndNameNeverPrefixed ==
    /\ AliasEncodedXML =>
          /\ WireName = (IF aliasCtor = "user" THEN UserAliasPrefix ELSE <<>>) \o aliasArg
          /\ GetName(alias) = aliasArg
          /\ ~HasPrefix(GetName(alias), UserAliasPrefix)
    /\ AliasDecodedXML =>
          /\ GetName(newAlias) = aliasArg
          /\ ~HasPrefix(GetName(newAlias), UserAliasPrefix)

\* C3 amended: the wire name is "ua-"+bare for a user-defined alias and bare for a
\* system-managed one; the name accessor of a constructed alias returns the
\* constructor's argument unchanged, and that of a decoded alias returns the wire name
\* with exactly one leading "ua-" removed, the flag telling whether it was there. The
\* bare name may itself begin with "ua-".
C3_WirePrefixAndNameIsBare ==
    /\ AliasEncodedXML =>
          /\ WireName = (IF aliasCtor = "user" THEN UserAliasPrefix ELSE <<>>) \o aliasArg
          /\ GetName(alias) = aliasArg
          /\ IsUserDefined(alias) => GetName(alias) # WireName
    /\ AliasDecodedXML =>
          /\ WireName = (IF IsUserDefined(newAlias) THEN UserAliasPrefix ELSE <<>>)
                            \o GetName(newAlias)
          /\ IsUserDefined(newAlias) = HasPrefix(WireName, UserAliasPrefix)

C3_Witness ==
    /\ AliasDecodedXML
    /\ aliasCtor = "user"
    /\ aliasArg = testAliasName
    /\ Render(aliasXML) = exampleXMLUserDefinedAlias
    /\ GetName(newAlias) = testAliasName

\* C4: JSON marshalling writes {"Name": bare name, "UserDefined": flag}, the name as
\* given with no "ua-" added, and JSON unmarshalling restores name and flag.
C4_JSONRoundTrip ==
    /\ (pc = "alias" /\ aliasJSON # Nil) =>
          RenderJSON(aliasJSON) =
              <<"{", "\"", "Name", "\"", ":", "\"">> \o aliasArg
                \o <<"\"", ",", "\"", "UserDefined", "\"", ":",
                     IF aliasCtor = "user" THEN "true" ELSE "false", "}">>
    /\ AliasDecodedJSON =>
          /\ GetName(newAlias) = aliasArg
          /\ IsUserDefined(newAlias) = (aliasCtor = "user")

C4_Witness ==
    /\ AliasDecodedJSON
    /\ aliasCtor = "libvirt"
    /\ aliasArg = testAliasName
    /\ RenderJSON(aliasJSON) = exampleJSONnonUserDefinedAlias
    /\ newAlias = [name |-> testAliasName, userDefined |-> FALSE]

----------------------------------------------------------------------------
(* LaunchSecurity claims *)

LSEncoded == pc = "ls" /\ launchSecurity # Nil /\ lsXML # Nil

LSDecoded == pc = "ls" /\ lsXML # Nil /\ newLaunchSecurity # Nil

\* the fixed order and tags the claims state, field by field
ClaimedFields ==
    <<"Policy", "AuthorKey", "VCEK", "IdAuth", "IdBlock", "HostData", "DHCert", "Session",
      "Cbitpos", "ReducedPhysBits">>

ClaimedTags ==
    <<"policy", "authorKey", "vcek", "idAuth", "idBlock", "hostData", "dhCert", "session",
      "cbitpos", "reducedPhysBits">>

TagPosition(t) == CHOOSE k \in 1..Len(ClaimedTags) : ClaimedTags[k] = t

NonEmptyFields(l) ==
    IF l.AMD = Nil THEN {} ELSE {k \in 1..Len(ClaimedFields) : l.AMD[ClaimedFields[k]] # <<>>}

\* C6: marshalling a LaunchSecurity writes the wrapping element with the type
\* attribute and, as children, exactly the non-empty AMD fields, each under its fixed
\* tag, in the fixed order; only Policy set gives one child; a nil payload and an
\* all-empty payload give no children.
C6_ChildrenAreNonEmptyFieldsInOrder ==
    LSEncoded =>
        LET cs == lsXML.children
        IN  /\ lsXML.tag = "LaunchSecurity"
            /\ lsXML.attrs = <<Attr("type", launchSecurity.Type)>>
            /\ lsXML.text = <<>>
            /\ Len(cs) = Cardinality(NonEmptyFields(launchSecurity))
            /\ \A k \in NonEmptyFields(launchSecurity) :
                  \E i \in 1..Len(cs) :
                      cs[i] = Element(ClaimedTags[k], <<>>, <<>>,
                                      launchSecurity.AMD[ClaimedFields[k]])
            /\ \A i, j \in 1..Len(cs) :
                  i < j => TagPosition(cs[i].tag) < TagPosition(cs[j].tag)
            /\ launchSecurity = launchSecurityAllFields => Render(lsXML) = expectedXMLAllFields
            /\ launchSecurity = launchSecurityMinimal => Render(lsXML) = expectedXMLMinimal
            /\ launchSecurity = launchSecurityEmptyAMD => Render(lsXML) = expectedXMLNoChildren
            /\ launchSecurity = launchSecurityNilAMD => Render(lsXML) = expectedXMLNoChildren
            /\ launchSecurity = launchSecurityRegularSEV => Render(lsXML) = expectedXMLRegularSEV

C6_Witness ==
    /\ LSEncoded
    /\ launchSecurity = launchSecurityAllFields
    /\ Len(lsXML.children) = 10

\* l is what the claim says decoding element el gives
PayloadRebuilt(el, l) ==
    (\E k \in 1..Len(ClaimedTags) : HasChild(el, ClaimedTags[k])) =>
        /\ l.AMD # Nil
        /\ \A k \in 1..Len(ClaimedTags) :
              l.AMD[ClaimedFields[k]] =
                  IF \E i \in 1..Len(el.children) : el.children[i].tag = ClaimedTags[k]
                  THEN LET i == CHOOSE i \in 1..Len(el.children) :
                                    el.children[i].tag = ClaimedTags[k]
                       IN  el.children[i].text
                  ELSE <<>>

\* C7: unmarshalling a launchSecurity element with at least one recognized child
\* gives a non-nil AMD payload holding the text of every child present and the empty
\* string for every child not present, standalone and inside a domain document.
C7_DecodeRebuildsPayload ==
    /\ LSDecoded =>
          /\ PayloadRebuilt(lsXML, newLaunchSecurity)
          /\ lsXML = xmlDataAllFields => newLaunchSecurity = launchSecurityAllFields
          /\ lsXML = xmlDataMinimal => newLaunchSecurity = launchSecurityMinimal
    /\ (pc = "domain" /\ domainXML # Nil /\ newDomain # Nil) =>
          LET ls == SelectSeq(domainXML.children, LAMBDA c : c.tag = "launchSecurity")
          IN  /\ ls # <<>> =>
                    /\ newDomain.LaunchSecurity # Nil
                    /\ PayloadRebuilt(ls[1], newDomain.LaunchSecurity)
              /\ domainXML = xmlDataDomainSEVSNP =>
                    newDomain.LaunchSecurity = launchSecurityOfDomainTest

C7_Witness ==
    /\ LSDecoded
    /\ launchSecurity = Nil
    /\ lsXML = xmlDataAllFields
    /\ newLaunchSecurity.AMD # Nil
    /\ newLaunchSecurity.AMD.IdBlock =
           <<"t", "e", "s", "t", "-", "i", "d", "-", "b", "l", "o", "c", "k">>

\* C8: the Type string is opaque: marshalling writes type="<Type>" verbatim and
\* unmarshalling restores it, whatever the payload; an encoding with Type "sev" never
\* contains type="sev-snp" and one with Type "sev-snp" never contains type="sev".
C8_TypeIsOpaque ==
    /\ LSEncoded =>
          /\ AttrValue(lsXML, "type") = launchSecurity.Type
          /\ ContainSubstring(Render(lsXML),
                               <<"type", "=", "\"">> \o launchSecurity.Type \o <<"\"">>)
          /\ launchSecurity.Type = Sev =>
                /\ ContainSubstring(Render(lsXML), typeSevSubstring)
                /\ ~ContainSubstring(Render(lsXML), typeSevSnpSubstring)
          /\ launchSecurity.Type = SevSnp =>
                /\ ContainSubstring(Render(lsXML), typeSevSnpSubstring)
                /\ ~ContainSubstring(Render(lsXML), typeSevSubstring)
    /\ (LSEncoded /\ LSDecoded) => newLaunchSecurity.Type = launchSecurity.Type
    /\ LSDecoded => newLaunchSecurity.Type = AttrValue(lsXML, "type")

C8_Witness ==
    /\ LSEncoded
    /\ LSDecoded
    /\ launchSecurity = sevSnpLaunchSecurity
    /\ newLaunchSecurity.Type = SevSnp
    /\ ~ContainSubstring(Render(lsXML), typeSevSubstring)

----------------------------------------------------------------------------
(* DomainSpec claims *)

DomainEncoded == pc = "domain" /\ domain # Nil /\ domainXML # Nil

DomainDecoded == pc = "domain" /\ domainXML # Nil /\ newDomain # Nil

DomainRoundTripped == DomainEncoded /\ DomainDecoded

\* newDomain.XMLName.Local and newDomain.XmlNS are set by hand before comparing
Normalized(spec) == [spec EXCEPT !.XMLName = <<>>, !.XmlNS = LibvirtNamespace]

StatsSuppressed(spec) ==
    /\ spec.Devices.Ballooning # Nil
    /\ spec.Devices.Ballooning.Model = None
    /\ spec.Devices.Ballooning.Stats # Nil

EmptyPayload(spec) ==
    /\ spec.LaunchSecurity # Nil
    /\ spec.LaunchSecurity.AMD # Nil
    /\ \A f \in DOMAIN spec.LaunchSecurity.AMD : spec.LaunchSecurity.AMD[f] = <<>>

SystemAliasWithPrefix(spec) ==
    \E i \in 1..Len(spec.Devices.Disks) :
        /\ spec.Devices.Disks[i].Alias # Nil
        /\ ~IsUserDefined(spec.Devices.Disks[i].Alias)
        /\ HasPrefix(GetName(spec.Devices.Disks[i].Alias), <<"u", "a", "-">>)

MemballoonElements ==
    LET devices == ChildrenNamed(domainXML, "devices")
    IN  IF devices = <<>> THEN <<>> ELSE ChildrenNamed(devices[1], "memballoon")

DocAttrs(doc, parent, tag, a) ==
    LET ps == ChildrenNamed(doc, parent)
        es == IF ps = <<>> THEN <<>> ELSE ChildrenNamed(ps[1], tag)
    IN  [i \in 1..Len(es) |-> AttrValue(es[i], a)]

DocCellIds(doc) ==
    LET cpus == ChildrenNamed(doc, "cpu")
    IN  IF cpus = <<>> THEN <<>> ELSE DocAttrs(cpus[1], "numa", "cell", "id")

DecimalText(n) ==
    CASE n = 0 -> <<"0">> [] n = 1 -> <<"1">> [] n = 2 -> <<"2">> [] n = 3 -> <<"3">>
      [] n = 4 -> <<"4">> [] OTHER -> <<"?">>

CellIds(spec) ==
    IF spec.CPU.NUMA = Nil THEN <<>>
    ELSE [i \in 1..Len(spec.CPU.NUMA.Cells) |-> spec.CPU.NUMA.Cells[i].ID]

VCPUIds(spec) ==
    IF spec.CPUTune = Nil THEN <<>>
    ELSE [i \in 1..Len(spec.CPUTune.VCPUPin) |-> DecimalText(spec.CPUTune.VCPUPin[i].VCPU)]

IOThreadIds(spec) ==
    IF spec.CPUTune = Nil THEN <<>>
    ELSE [i \in 1..Len(spec.CPUTune.IOThreadPin) |->
             DecimalText(spec.CPUTune.IOThreadPin[i].IOThread)]

MemNodeIds(spec) ==
    IF spec.NUMATune = Nil THEN <<>>
    ELSE [i \in 1..Len(spec.NUMATune.MemNodes) |-> DecimalText(spec.NUMATune.MemNodes[i].CellID)]

OrderKept(doc, spec) ==
    /\ DocCellIds(doc) = CellIds(spec)
    /\ DocAttrs(doc, "cputune", "vcpupin", "vcpu") = VCPUIds(spec)
    /\ DocAttrs(doc, "cputune", "iothreadpin", "iothread") = IOThreadIds(spec)
    /\ DocAttrs(doc, "numatune", "memnode", "cellid") = MemNodeIds(spec)

\* C10: NUMA cells, vCPU pins, IO-thread pins and memnodes keep their order:
\* marshalling writes them in slice order and unmarshalling yields them in document
\* order, with no sorting by id.
C10_SequencesKeepTheirOrder ==
    /\ DomainEncoded => OrderKept(domainXML, domain.Spec)
    /\ DomainDecoded => OrderKept(domainXML, newDomain)
    /\ DomainRoundTripped =>
          /\ CellIds(newDomain) = CellIds(domain.Spec)
          /\ VCPUIds(newDomain) = VCPUIds(domain.Spec)
          /\ IOThreadIds(newDomain) = IOThreadIds(domain.Spec)
          /\ MemNodeIds(newDomain) = MemNodeIds(domain.Spec)
    /\ (DomainEncoded /\ domain.Spec = expectedSpec) =>
          /\ DocAttrs(domainXML, "cputune", "vcpupin", "vcpu") = <<<<"0">>, <<"1">>, <<"2">>, <<"3">>>>
          /\ DocAttrs(domainXML, "numatune", "memnode", "cellid") = <<<<"0">>, <<"2">>>>

C10_Witness ==
    /\ DomainRoundTripped
    /\ Len(VCPUIds(domain.Spec)) = 2
    /\ domain.Spec.CPUTune.VCPUPin[1].VCPU > domain.Spec.CPUTune.VCPUPin[2].VCPU + 1
    /\ newDomain.CPUTune.VCPUPin[1].VCPU > newDomain.CPUTune.VCPUPin[2].VCPU + 1

----------------------------------------------------------------------------
(* Domain.DeepCopy claims *)

Copied == pc = "copy" /\ copy # 0

----------------------------------------------------------------------------
(* Optional structure claims *)

\* the optional structures of a DomainSpec that have an element of their own
OptionalElements ==
    {"features", "acpi", "smm", "pmu", "numa", "cputune", "emulatorpin", "numatune",
     "memballoon", "stats", "launchSecurity"}

\* is the structure present (non-nil, and so is every structure around it) in memory
Present(spec, k) ==
    CASE k = "features" -> spec.Features # Nil
      [] k = "acpi" -> spec.Features # Nil /\ spec.Features.ACPI # Nil
      [] k = "smm" -> spec.Features # Nil /\ spec.Features.SMM # Nil
      [] k = "pmu" -> spec.Features # Nil /\ spec.Features.PMU # Nil
      [] k = "numa" -> spec.CPU.NUMA # Nil
      [] k = "cputune" -> spec.CPUTune # Nil
      [] k = "emulatorpin" -> spec.CPUTune # Nil /\ spec.CPUTune.EmulatorPin # Nil
      [] k = "numatune" -> spec.NUMATune # Nil
      [] k = "memballoon" -> spec.Devices.Ballooning # Nil
      [] k = "stats" -> spec.Devices.Ballooning # Nil /\ spec.Devices.Ballooning.Stats # Nil
      [] k = "launchSecurity" -> spec.LaunchSecurity # Nil
      [] k = "AMD" -> spec.LaunchSecurity # Nil /\ spec.LaunchSecurity.AMD # Nil

ParentTag(k) ==
    CASE k \in {"acpi", "smm", "pmu"} -> "features"
      [] k = "numa" -> "cpu"
      [] k = "emulatorpin" -> "cputune"
      [] k \in {"memballoon"} -> "devices"
      [] k = "stats" -> "memballoon"
      [] OTHER -> "domain"

RECURSIVE ElementsNamed(_, _)
\* the elements of a document with the tag of k, under the parent k has
ElementsNamed(doc, k) ==
    IF ParentTag(k) = "domain" THEN ChildrenNamed(doc, k)
    ELSE LET ps == ElementsNamed(doc, ParentTag(k))
         IN  IF ps = <<>> THEN <<>> ELSE ChildrenNamed(ps[1], k)

Emitted(doc, k) == ElementsNamed(doc, k) # <<>>

\* test "Generate expected libvirt xml": domain.XMLName.Local = "domain" before comparing
MinimalRoundTrips ==
    (DomainRoundTripped /\ base = "minimal" /\ edits = 0 /\ defaults = 0) =>
        /\ domain.Spec = NewMinimalDomainSpec(<<"m", "y", "n", "a", "m", "e", "s", "p", "a", "c", "e", "_",
                                                "t", "e", "s", "t", "v", "m", "i">>)
        /\ \A k \in OptionalElements : ~Emitted(domainXML, k)
        /\ newDomain = [domain.Spec EXCEPT !.XMLName = <<"d", "o", "m", "a", "i", "n">>]

----------------------------------------------------------------------------
(* SEV predicate claims *)

VMILaunchSecurity == vmi.Spec.Domain.LaunchSecurity

Was(name) == pc = "vmi" /\ name \in called

\* C13: IsSEVAttestationRequested returns true exactly when LaunchSecurity is non-nil,
\* SNP is nil, SEV is non-nil and SEV.Attestation is non-nil; it returns false whenever
\* SNP is non-nil, and it dereferences no nil pointer for any combination of fields.
C13_AttestationOnlyForSEVWithoutSNP ==
    Was("IsSEVAttestationRequested") =>
        LET ls == VMILaunchSecurity
            r  == ret["IsSEVAttestationRequested"]
        IN  /\ ~r.panic
            /\ r.value = (/\ ls # Nil
                          /\ ls.SNP = Nil
                          /\ ls.SEV # Nil
                          /\ ls.SEV.Attestation # Nil)
            /\ (ls # Nil /\ ls.SNP # Nil) => ~r.value

C13_Witness ==
    /\ Was("IsSEVAttestationRequested")
    /\ VMILaunchSecurity # Nil
    /\ VMILaunchSecurity.SNP # Nil
    /\ VMILaunchSecurity.SEV # Nil
    /\ VMILaunchSecurity.SEV.Attestation # Nil
    /\ ret["IsSEVAttestationRequested"] = Ret(FALSE)

\* C14: for every VMI, IsSEVVMI is true exactly when LaunchSecurity is non-nil and SEV
\* or SNP is non-nil; IsSEVSNPVMI exactly when LaunchSecurity and SNP are non-nil;
\* IsSEVESVMI exactly when LaunchSecurity, SEV, SEV.Policy and
\* SEV.Policy.EncryptedState are non-nil and EncryptedState is true, whatever SNP is;
\* each of IsSEVESVMI, IsSEVSNPVMI and IsSEVAttestationRequested implies IsSEVVMI, and
\* all four are false when LaunchSecurity is nil.
C14_SEVPredicatesAreConsistent ==
    LET ls == VMILaunchSecurity
    IN  /\ Was("IsSEVVMI") =>
              ret["IsSEVVMI"] = Ret(ls # Nil /\ (ls.SEV # Nil \/ ls.SNP # Nil))
        /\ Was("IsSEVSNPVMI") =>
              ret["IsSEVSNPVMI"] = Ret(ls # Nil /\ ls.SNP # Nil)
        /\ Was("IsSEVESVMI") =>
              ret["IsSEVESVMI"] = Ret(/\ ls # Nil
                                      /\ ls.SEV # Nil
                                      /\ ls.SEV.Policy # Nil
                                      /\ ls.SEV.Policy.EncryptedState # Nil
                                      /\ ls.SEV.Policy.EncryptedState.deref)
        /\ \A name \in called :
              /\ pc = "vmi" => ~ret[name].panic
              /\ (pc = "vmi" /\ ls = Nil) => ~ret[name].value
              /\ (Was("IsSEVVMI") /\ ret[name].value) => ret["IsSEVVMI"].value

C14_Witness ==
    /\ pc = "vmi"
    /\ called = Predicates
    /\ VMILaunchSecurity # Nil
    /\ VMILaunchSecurity.SNP # Nil
    /\ ret["IsSEVESVMI"] = Ret(TRUE)
    /\ ret["IsSEVSNPVMI"] = Ret(TRUE)
    /\ ret["IsSEVVMI"] = Ret(TRUE)
    /\ ret["IsSEVAttestationRequested"] = Ret(FALSE)

====
